---- MODULE Spec2Model ----
(***************************************************************************)
(* A model of the wu front end: the tokenizer's cursor with its snapshot   *)
(* stack (src/wu/lexer/tokenizer.rs), the relaxed comparison of types      *)
(* (src/wu/visitor/visitor.rs) and the semantic checker that walks the     *)
(* statements of a program against a symbol table and a type table         *)
(* (src/wu/visitor/visitor.rs, src/wu/visitor/typetab.rs).                 *)
(***************************************************************************)
EXTENDS Integers, Sequences, FiniteSets, TLC

VARIABLES
  \* the comparison of two types
  lhs, rhs, cmp,
  \* Visitor: the global scope's tables, the statement checked last and its result
  symtab, typetab, stmt, result, visited,
  \* Tokenizer: the characters, the cursor, the snapshot stack, the last call
  \* and its outcome
  items, index, pos, snapshots, outcome, call,
  \* TypeTab: the last call of set_type or get_type on the chain of scopes
  tcall,
  \* run: the results the lexer yields, the tokens pushed, the place in the
  \* function, the state of every stage and the stages started, in order
  input, tokens, pc, status, started

cmpVars == <<lhs, rhs, cmp>>
visVars == <<symtab, typetab, stmt, result, visited>>
tokVars == <<items, index, pos, snapshots, outcome, call>>
tabVars == <<tcall>>
runVars == <<input, tokens, pc, status, started>>
vars == <<lhs, rhs, cmp, symtab, typetab, stmt, result, visited,
          items, index, pos, snapshots, outcome, call, tcall,
          input, tokens, pc, status, started>>

(***************************************************************************)
(* Bounds of the model.                                                    *)
(***************************************************************************)
\* the longest element list of a Set type that is compared
MaxSetLen == 2

\* the longest Set expression and the longest tuple target of a declaration
MaxTuple == 2

\* the number of statements of a program
MaxStatements == 2

\* the longest source text
MaxChars == 3

\* the furthest index of the cursor
MaxIndex == 4

\* the deepest stack of snapshots
MaxSnapshots == 2

\* the most characters a matcher consumes in one call
MaxConsume == 2

\* the depth to which Set nodes are nested in the types that are compared
MaxNesting == 2

\* the most slots of one scope of the chain of type tables
MaxSlots == 2

\* the most ancestors of the scope set_type and get_type are called on
MaxParents == 2

\* the most results the lexer yields in one run
MaxTokens == 3

(***************************************************************************)
(* Types: enum TypeNode, enum TypeMode, struct Type.                       *)
(***************************************************************************)
TypeMode == {"Undeclared", "Immutable", "Optional", "Regular"}

ScalarTag == {"Int", "Float", "Number", "Bool", "Str", "Char", "Nil"}

\* a TypeNode is a record of one shape: the variant's tag, the name of an Id,
\* the element types of a Set
Scalar(tag) == [tag |-> tag, name |-> "", elems |-> <<>>]
IdNode(n) == [tag |-> "Id", name |-> n, elems |-> <<>>]
SetNode(ts) == [tag |-> "Set", name |-> "", elems |-> ts]

NewType(node, mode) == [node |-> node, mode |-> mode]

TypeNumber == NewType(Scalar("Number"), "Regular")
TypeInt == NewType(Scalar("Int"), "Regular")
TypeFloat == NewType(Scalar("Float"), "Regular")
TypeString == NewType(Scalar("Str"), "Regular")
TypeChar == NewType(Scalar("Char"), "Regular")
TypeBool == NewType(Scalar("Bool"), "Regular")
TypeNil == NewType(Scalar("Nil"), "Regular")

\* TypeMode::check: the strict comparison, one arm per identical pair
ModeCheck(a, b) ==
  IF a = "Regular" /\ b = "Regular" THEN TRUE
  ELSE IF a = "Immutable" /\ b = "Immutable" THEN TRUE
  ELSE IF a = "Undeclared" /\ b = "Undeclared" THEN TRUE
  ELSE IF a = "Optional" /\ b = "Optional" THEN TRUE
  ELSE FALSE

\* a mode comparison that is reflexive on Undeclared
ModeEqReflexive(a, b) ==
  IF a = "Undeclared" /\ b = "Undeclared" THEN TRUE
  ELSE IF a \in {"Regular", "Immutable"} /\ b \in {"Regular", "Immutable"} THEN TRUE
  ELSE (a = "Optional" \/ b = "Optional")

\* impl PartialEq for TypeMode: the arms of the match, first match wins
ModeEq(a, b) ==
  IF a = "Regular" /\ b = "Regular" THEN TRUE
  ELSE IF a = "Regular" /\ b = "Immutable" THEN TRUE
  ELSE IF a = "Immutable" /\ b = "Immutable" THEN TRUE
  ELSE IF a = "Immutable" /\ b = "Regular" THEN TRUE
  ELSE IF b = "Optional" THEN TRUE
  ELSE IF a = "Optional" THEN TRUE
  ELSE IF a = "Undeclared" THEN FALSE
  ELSE FALSE

RECURSIVE NodeEq(_, _), TypeEq(_, _), VecEq(_, _)

\* Vec<Type> == Vec<Type>: the same length and equal element by element
VecEq(xs, ys) ==
  IF Len(xs) # Len(ys) THEN FALSE
  ELSE IF Len(xs) = 0 THEN TRUE
  ELSE TypeEq(Head(xs), Head(ys)) /\ VecEq(Tail(xs), Tail(ys))

\* a node comparison in which Int and Float agree as Number does with both
NodeEqNumeric(a, b) ==
  LET num == {"Int", "Float", "Number"} IN
  IF a.tag \in num /\ b.tag \in num THEN TRUE
  ELSE IF a.tag = "Id" /\ b.tag = "Id" THEN a.name = b.name
  ELSE IF a.tag = "Set" /\ b.tag = "Set" THEN Len(a.elems) = Len(b.elems)
  ELSE a.tag = b.tag

\* impl PartialEq for TypeNode: the arms of the match, first match wins
NodeEq(a, b) ==
  IF a.tag = "Int" /\ b.tag = "Int" THEN TRUE
  ELSE IF a.tag = "Int" /\ b.tag = "Number" THEN TRUE
  ELSE IF a.tag = "Number" /\ b.tag = "Int" THEN TRUE
  ELSE IF a.tag = "Float" /\ b.tag = "Float" THEN TRUE
  ELSE IF a.tag = "Float" /\ b.tag = "Number" THEN TRUE
  ELSE IF a.tag = "Number" /\ b.tag = "Float" THEN TRUE
  ELSE IF a.tag = "Number" /\ b.tag = "Number" THEN TRUE
  ELSE IF a.tag = "Bool" /\ b.tag = "Bool" THEN TRUE
  ELSE IF a.tag = "Str" /\ b.tag = "Str" THEN TRUE
  ELSE IF a.tag = "Char" /\ b.tag = "Char" THEN TRUE
  ELSE IF a.tag = "Nil" /\ b.tag = "Nil" THEN TRUE
  ELSE IF a.tag = "Id" /\ b.tag = "Id" THEN a.name = b.name
  ELSE IF a.tag = "Set" /\ b.tag = "Set" THEN VecEq(a.elems, b.elems)
  ELSE FALSE

\* a comparison of types in which an undeclared left side agrees with every
\* mode on the right
TypeEqUndeclaredLeft(s, t) ==
  NodeEq(s.node, t.node) /\ (ModeEq(s.mode, t.mode) \/ s.mode = "Undeclared")

\* #[derive(PartialEq)] struct Type: node == node && mode == mode
TypeEq(s, t) == NodeEq(s.node, t.node) /\ ModeEq(s.mode, t.mode)

\* the != of the derive: the negation of ==
TypeNe(s, t) == ~TypeEq(s, t)

(***************************************************************************)
(* The types that are compared: every scalar node, two Id nodes and the    *)
(* Set nodes of at most MaxSetLen elements, under every mode.              *)
(***************************************************************************)
TypeNames == {"foo", "bar"}

LeafNodes == {Scalar(t) : t \in ScalarTag} \cup {IdNode(n) : n \in TypeNames}

\* the element types of the Set nodes: nodes and modes on both sides of
\* every rule of the two comparisons
ElemTypes ==
  {TypeInt, NewType(Scalar("Number"), "Immutable"),
   NewType(Scalar("Float"), "Optional"), NewType(Scalar("Int"), "Undeclared")}

SeqsUpTo(S, n) == UNION {[1..k -> S] : k \in 0..n}

SetNodes == {SetNode(ts) : ts \in SeqsUpTo(ElemTypes, MaxSetLen)}

Nodes == LeafNodes \cup SetNodes

Types == {NewType(n, m) : n \in Nodes, m \in TypeMode}

\* the Set nodes nested in Set nodes: the nodes of depth d hold one type
\* whose node is of depth d - 1
NestedLeaves == {Scalar("Int"), Scalar("Number"), Scalar("Float")}

NestedModes == {"Regular", "Undeclared"}

RECURSIVE NodesOfDepth(_)
NodesOfDepth(d) ==
  IF d = 0 THEN NestedLeaves \cup {SetNode(<<>>)}
  ELSE NodesOfDepth(d - 1)
         \cup {SetNode(<<NewType(n, m)>>) : n \in NodesOfDepth(d - 1), m \in NestedModes}

NestedTypes == {NewType(n, m) : n \in NodesOfDepth(MaxNesting), m \in NestedModes}

NoCmp == [done |-> FALSE, modeEq |-> FALSE, modeCheck |-> FALSE,
          nodeEq |-> FALSE, typeEq |-> FALSE,
          modeEqRev |-> FALSE, nodeEqRev |-> FALSE, typeEqRev |-> FALSE]

(***************************************************************************)
(* The AST the checker walks: enum ExpressionNode and enum StatementNode,  *)
(* as records of one shape each.                                           *)
(***************************************************************************)
Expr(kind, name, content, body) ==
  [kind |-> kind, name |-> name, content |-> content, body |-> body]

Identifier(n) == Expr("Identifier", n, <<>>, <<>>)
Literal(kind) == Expr(kind, "", <<>>, <<>>)
SetExpr(content) == Expr("Set", "", content, <<>>)
Block(statements) == Expr("Block", "", <<>>, statements)
NoExpr == Expr("None", "", <<>>, <<>>)

Statement(kind, t, left, right, hasRight) ==
  [kind |-> kind, vtype |-> t, left |-> left, right |-> right, hasRight |-> hasRight]

\* Expression(expr), Variable(type, left, Option<right>), Constant(type, left, right)
ExpressionStatement(e) == Statement("Expression", TypeNil, e, NoExpr, FALSE)
Variable(t, left, right) == Statement("Variable", t, left, right, TRUE)
BareVariable(t, left) == Statement("Variable", t, left, NoExpr, FALSE)
Constant(t, left, right) == Statement("Constant", t, left, right, TRUE)
NoStatement == Statement("None", TypeNil, NoExpr, NoExpr, FALSE)

(***************************************************************************)
(* SymTab: the ordered list of the names declared in a scope. The visitor  *)
(* only ever holds the global scope, so a name resolves at distance 0.     *)
(***************************************************************************)
\* the slot of a name: the 0-based place of its first entry in the list
IndexOf(names, n) ==
  (CHOOSE i \in 1..Len(names) :
     names[i] = n /\ \A j \in 1..(i - 1) : names[j] # n) - 1

\* SymTab::get_name: Some((index, env_index)) or None
GetName(names, n) ==
  IF \E i \in 1..Len(names) : names[i] = n
  THEN [found |-> TRUE, index |-> IndexOf(names, n), env_index |-> 0]
  ELSE [found |-> FALSE, index |-> 0, env_index |-> 0]

\* SymTab::add_name: the name is appended, its slot is the old length
AddName(names, n) == [names |-> Append(names, n), index |-> Len(names)]

(***************************************************************************)
(* TypeTab: a scope's list of types and its chain of parents; a chain is   *)
(* the sequence <<own types, parent's types, grandparent's types, ...>>.   *)
(***************************************************************************)
\* TypeTab::global
TypeTabGlobal == << <<>> >>

\* TypeTab::grow: push Type::nil() on the scope's own list
Grow(tab) == [tab EXCEPT ![1] = Append(tab[1], TypeNil)]

\* TypeTab::size
Size(tab) == Len(tab[1])

RECURSIVE SetType(_, _, _, _), GetType(_, _, _)

\* a set_type that writes into the scope itself whatever the distance
SetTypeOwnScope(tab, i, env_index, t) ==
  IF i < Len(tab[1])
  THEN [ok |-> TRUE, tab |-> [tab EXCEPT ![1][i + 1] = t]]
  ELSE [ok |-> FALSE, tab |-> tab]

\* TypeTab::set_type
SetType(tab, i, env_index, t) ==
  IF env_index = 0
  THEN IF i < Len(tab[1])
       THEN [ok |-> TRUE, tab |-> [tab EXCEPT ![1][i + 1] = t]]
       ELSE [ok |-> FALSE, tab |-> tab]
  ELSE IF Len(tab) > 1
       THEN LET r == SetType(Tail(tab), i, env_index - 1, t)
            IN [ok |-> r.ok, tab |-> <<tab[1]>> \o r.tab]
       ELSE [ok |-> FALSE, tab |-> tab]

\* TypeTab::get_type
GetType(tab, i, env_index) ==
  IF env_index = 0
  THEN IF i < Len(tab[1])
       THEN [ok |-> TRUE, type |-> tab[1][i + 1]]
       ELSE [ok |-> FALSE, type |-> TypeNil]
  ELSE IF Len(tab) > 1
       THEN GetType(Tail(tab), i, env_index - 1)
       ELSE [ok |-> FALSE, type |-> TypeNil]

\* a call of set_type or get_type: its arguments, whether it returned Ok
\* and the type get_type returned
TCall(op, i, env_index, t, ok, got) ==
  [op |-> op, index |-> i, env_index |-> env_index, type |-> t,
   ok |-> ok, got |-> got]

NoTCall == TCall("none", 0, 0, TypeNil, FALSE, TypeNil)

(***************************************************************************)
(* Visitor. A visitor value holds the two tables and the Result of the     *)
(* call that produced it: "ok" for Ok(()), else the error returned.        *)
(***************************************************************************)
Errors ==
  {"undeclared", "mismatched", "nonident", "unexpected variable declaration",
   "unexpected constant declaration", "invalid type index"}

VisitorOf(names, tab, err) == [symtab |-> names, typetab |-> tab, err |-> err]

\* Visitor::new
NewVisitor == VisitorOf(<<>>, TypeTabGlobal, "ok")

Fail(v, err) == [v EXCEPT !.err = err]

\* Visitor::type_expression
TypeExpression(v, e) ==
  IF e.kind = "Identifier"
  THEN LET g == GetName(v.symtab, e.name)
       IN GetType(v.typetab, g.index, g.env_index)
  ELSE IF e.kind = "String" THEN [ok |-> TRUE, type |-> TypeString]
  ELSE IF e.kind = "Char" THEN [ok |-> TRUE, type |-> TypeChar]
  ELSE IF e.kind = "Bool" THEN [ok |-> TRUE, type |-> TypeBool]
  ELSE IF e.kind = "Number" THEN [ok |-> TRUE, type |-> TypeNumber]
  ELSE [ok |-> TRUE, type |-> TypeNil]

\* the store that ends a single-identifier declaration:
\* self.typetab.set_type(index, 0, t)?
Store(v, i, t) ==
  LET r == SetType(v.typetab, i, 0, t)
  IN IF r.ok THEN [v EXCEPT !.typetab = r.tab] ELSE Fail(v, "invalid type index")

\* the start of the Identifier arm of visit_variable and of visit_constant:
\* the slot of the name, which is added when it does not resolve
Resolve(v, n) ==
  LET g == GetName(v.symtab, n)
      added == AddName(v.symtab, n)
  IN IF g.found
     THEN [v |-> v, index |-> g.index]
     ELSE [v |-> [v EXCEPT !.symtab = added.names], index |-> added.index]

\* a declaration that stores its declared type without comparing it
AssignUnchecked(v, i, declared, right_type) ==
  IF ~NodeEq(declared.node, Scalar("Nil"))
  THEN Store(v, i, declared)
  ELSE Store(v, i, right_type)

\* the end of the Identifier arm: a declared type other than Nil must agree
\* with the type of the initializer and is then the type stored
Assign(v, i, declared, right_type) ==
  IF ~NodeEq(declared.node, Scalar("Nil"))
  THEN IF TypeNe(declared, right_type)
       THEN Fail(v, "mismatched")
       ELSE Store(v, i, declared)
  ELSE Store(v, i, right_type)

RECURSIVE VisitStatement(_, _), VisitExpression(_, _), VisitExpressions(_, _),
          VisitStatements(_, _), VisitVariable(_, _), VisitConstant(_, _),
          DeclareNames(_, _), DeclareIdentifier(_, _)

\* for expression in content { self.visit_expression(expression)? }
VisitExpressions(v, es) ==
  IF Len(es) = 0 THEN v
  ELSE LET v1 == VisitExpression(v, Head(es))
       IN IF v1.err # "ok" THEN v1 ELSE VisitExpressions(v1, Tail(es))

\* for statement in statements { self.visit_statement(statement)? }
VisitStatements(v, ss) ==
  IF Len(ss) = 0 THEN v
  ELSE LET v1 == VisitStatement(v, Head(ss))
       IN IF v1.err # "ok" THEN v1 ELSE VisitStatements(v1, Tail(ss))

\* a visit_expression that accepts every identifier
VisitExpressionUnresolved(v, e) ==
  IF e.kind = "Set" THEN VisitExpressions(v, e.content)
  ELSE IF e.kind = "Block" THEN VisitStatements(v, e.body)
  ELSE v

\* Visitor::visit_expression
VisitExpression(v, e) ==
  IF e.kind = "Identifier"
  THEN IF ~GetName(v.symtab, e.name).found THEN Fail(v, "undeclared") ELSE v
  ELSE IF e.kind = "Set" THEN VisitExpressions(v, e.content)
  ELSE IF e.kind = "Block" THEN VisitStatements(v, e.body)
  ELSE v

\* a Set arm that adds only the names that do not resolve yet
DeclareNamesOnce(v, es) ==
  IF Len(es) = 0 THEN v
  ELSE IF Head(es).kind = "Identifier"
       THEN DeclareNames(Resolve(v, Head(es).name).v, Tail(es))
       ELSE Fail(v, "nonident")

\* the Set arm of visit_variable and of visit_constant: every element is
\* added as a name, the first element that is no identifier is the error
DeclareNames(v, es) ==
  IF Len(es) = 0 THEN v
  ELSE IF Head(es).kind = "Identifier"
       THEN DeclareNames(
              [v EXCEPT !.symtab = AddName(v.symtab, Head(es).name).names],
              Tail(es))
       ELSE Fail(v, "nonident")

\* the Identifier arm of visit_variable and of visit_constant
DeclareIdentifier(v, s) ==
  LET r == Resolve(v, s.left.name)
      v1 == [r.v EXCEPT !.typetab = Grow(r.v.typetab)]
  IN IF s.hasRight
     THEN LET v2 == VisitExpression(v1, s.right)
          IN IF v2.err # "ok" THEN v2
             ELSE LET right_type == TypeExpression(v2, s.right)
                  IN IF ~right_type.ok THEN Fail(v2, "invalid type index")
                     ELSE Assign(v2, r.index, s.vtype, right_type.type)
     ELSE Store(v1, r.index, s.vtype)

\* Visitor::visit_variable
VisitVariable(v, s) ==
  IF s.left.kind = "Identifier" THEN DeclareIdentifier(v, s)
  ELSE IF s.left.kind = "Set" THEN DeclareNames(v, s.left.content)
  ELSE Fail(v, "unexpected variable declaration")

\* Visitor::visit_constant
VisitConstant(v, s) ==
  IF s.left.kind = "Identifier" THEN DeclareIdentifier(v, s)
  ELSE IF s.left.kind = "Set" THEN DeclareNames(v, s.left.content)
  ELSE Fail(v, "unexpected constant declaration")

\* a visit_statement whose failure undoes what the statement registered
VisitStatementUndoing(v, s) ==
  LET r == IF s.kind = "Expression" THEN VisitExpression(v, s.left)
           ELSE IF s.left.kind \notin {"Identifier", "Set"} THEN v
           ELSE IF s.kind = "Variable" THEN VisitVariable(v, s)
           ELSE VisitConstant(v, s)
  IN IF r.err = "ok" THEN r ELSE Fail(v, r.err)

\* Visitor::visit_statement
VisitStatement(v, s) ==
  IF s.kind = "Expression" THEN VisitExpression(v, s.left)
  ELSE IF s.kind = "Variable"
       THEN IF s.left.kind \in {"Identifier", "Set"} THEN VisitVariable(v, s) ELSE v
  ELSE IF s.left.kind \in {"Identifier", "Set"} THEN VisitConstant(v, s) ELSE v

(***************************************************************************)
(* Tokenizer. A cursor value holds index, pos = <<line, column>> and the   *)
(* stack of snapshots, the last pushed last; the characters are apart, as  *)
(* they never change. Indices count from 0 as in the source.               *)
(***************************************************************************)
Chars == {"a", "\n"}

Snapshot(i, p) == [index |-> i, pos |-> p]

Cursor(i, p, snaps) == [index |-> i, pos |-> p, snapshots |-> snaps]

\* Tokenizer::new
NewCursor == Cursor(0, <<0, 0>>, <<>>)

\* self.items.get(i)
HasItem(chars, i) == i >= 0 /\ i < Len(chars)
Item(chars, i) == chars[i + 1]

\* Tokenizer::end
End(chars, t) == t.index >= Len(chars)

\* Tokenizer::advance: the position follows the character at index + 1,
\* when there is one, and the index moves by one
Advance(chars, t) ==
  LET p == IF HasItem(chars, t.index + 1)
           THEN IF Item(chars, t.index + 1) = "\n"
                THEN <<t.pos[1] + 1, t.pos[2] + 0>>
                ELSE <<t.pos[1], t.pos[2] + 1>>
           ELSE t.pos
  IN [t EXCEPT !.pos = p, !.index = t.index + 1]

RECURSIVE AdvanceN(_, _, _)

\* Tokenizer::advance_n
AdvanceN(chars, t, n) ==
  IF n = 0 THEN t ELSE AdvanceN(chars, Advance(chars, t), n - 1)

\* Tokenizer::take_snapshot
TakeSnapshot(t) ==
  [t EXCEPT !.snapshots = Append(t.snapshots, Snapshot(t.index, t.pos))]

\* a rollback that restores the index and leaves the position
RollbackIndexOnly(t) ==
  LET snapshot == t.snapshots[Len(t.snapshots)]
  IN [t EXCEPT !.snapshots = SubSeq(t.snapshots, 1, Len(t.snapshots) - 1),
               !.index = snapshot.index]

\* Tokenizer::rollback_snapshot, on a stack that is not empty
RollbackSnapshot(t) ==
  LET snapshot == t.snapshots[Len(t.snapshots)]
  IN [t EXCEPT !.snapshots = SubSeq(t.snapshots, 1, Len(t.snapshots) - 1),
               !.index = snapshot.index,
               !.pos = snapshot.pos]

\* a commit that drops the oldest snapshot instead of the newest
CommitOldest(t) ==
  IF Len(t.snapshots) = 0 THEN t
  ELSE [t EXCEPT !.snapshots = Tail(t.snapshots)]

\* Tokenizer::commit_snapshot: Vec::pop, which leaves an empty stack empty
CommitSnapshot(t) ==
  IF Len(t.snapshots) = 0 THEN t
  ELSE [t EXCEPT !.snapshots = SubSeq(t.snapshots, 1, Len(t.snapshots) - 1)]

\* the lines of the source as run() builds them, content.lines(): one line
\* for every newline and one more for the characters after the last
LineCount(chars) ==
  Cardinality({i \in 1..Len(chars) : chars[i] = "\n"})
    + (IF Len(chars) > 0 /\ chars[Len(chars)] # "\n" THEN 1 ELSE 0)

\* the outcome of a call: what it returned and what the matcher consumed
Outcome(r, n) == [result |-> r, consumed |-> n]

\* what a matcher does with the cursor: it consumes n characters, then
\* returns Ok(Some(token)), Ok(None) or Err(())
MatcherResults == {"token", "nomatch", "error"}

\* a call of an operation of the tokenizer: its name and, for
\* try_match_token, what its matcher consumes and reports
Call(op, n, r) == [op |-> op, consumed |-> n, report |-> r]

\* a try_match_token that rolls the cursor back on an error as on no match
TryMatchTokenBacktrackError(chars, t, n, r) ==
  IF End(chars, t)
  THEN [t |-> t,
        outcome |-> Outcome(IF t.pos[1] < LineCount(chars) THEN "eof" ELSE "panic", 0)]
  ELSE LET matched == AdvanceN(chars, TakeSnapshot(t), n)
       IN IF r = "error"
          THEN [t |-> RollbackSnapshot(matched), outcome |-> Outcome("error", n)]
          ELSE IF r = "token"
               THEN [t |-> CommitSnapshot(matched), outcome |-> Outcome("token", n)]
               ELSE [t |-> RollbackSnapshot(matched), outcome |-> Outcome("nomatch", n)]

\* Tokenizer::try_match_token with a matcher that consumes n characters
\* and returns r: the cursor after the call and the outcome of the call.
\* At the end of the input the EOF token borrows the line pos.0 of the
\* source, which panics when the source has no such line.
TryMatchToken(chars, t, n, r) ==
  IF End(chars, t)
  THEN [t |-> t,
        outcome |-> Outcome(IF t.pos[1] < LineCount(chars) THEN "eof" ELSE "panic", 0)]
  ELSE LET matched == AdvanceN(chars, TakeSnapshot(t), n)
       IN IF r = "error" THEN [t |-> matched, outcome |-> Outcome("error", n)]
          ELSE IF r = "token"
               THEN [t |-> CommitSnapshot(matched), outcome |-> Outcome("token", n)]
               ELSE [t |-> RollbackSnapshot(matched), outcome |-> Outcome("nomatch", n)]

(***************************************************************************)
(* run: the stages of the pipeline. The lexer, the parser, the compiler    *)
(* and the virtual machine are called for their results only.              *)
(***************************************************************************)
Stages == <<"lex", "parse", "check", "compile", "execute">>

StageNames == {Stages[i] : i \in 1..Len(Stages)}

\* the place of a stage in the pipeline
StageNumber(s) == CHOOSE i \in 1..Len(Stages) : Stages[i] = s

\* what the lexer yields: Ok(token) of some kind, or Err
TokenResults == {"int", "identifier", "err"}

\* what a stage returns
StageResults == {"ok", "err"}

NoStatus == [s \in StageNames |-> "idle"]

\* a match that goes on whatever the stage returned
ProceedAlways(stage, r) ==
  IF StageNumber(stage) < Len(Stages) THEN Stages[StageNumber(stage) + 1] ELSE "done"

\* the match on the result of a stage: the Ok arm holds the next stage, the
\* other arm is `_ => ()` and run returns
Proceed(stage, r) ==
  IF r = "ok" /\ StageNumber(stage) < Len(Stages)
  THEN Stages[StageNumber(stage) + 1]
  ELSE "done"

(***************************************************************************)
(* The parts of the state a specification leaves alone.                    *)
(***************************************************************************)
IdleCompare == lhs = TypeNil /\ rhs = TypeNil /\ cmp = NoCmp

IdleVisitor ==
  /\ symtab = <<>>
  /\ typetab = TypeTabGlobal
  /\ stmt = NoStatement
  /\ result = "none"
  /\ visited = 0

IdleTypeTab == tcall = NoTCall

IdleRun ==
  /\ input = <<>>
  /\ tokens = <<>>
  /\ pc = "done"
  /\ status = NoStatus
  /\ started = <<>>

\* the variables of the other parts of the program
Idle == IdleTypeTab /\ IdleRun

Others == <<tcall, input, tokens, pc, status, started>>

IdleTokenizer ==
  /\ items = <<>>
  /\ index = 0
  /\ pos = <<0, 0>>
  /\ snapshots = <<>>
  /\ outcome = Outcome("none", 0)
  /\ call = Call("none", 0, "none")

(***************************************************************************)
(* The comparison of two types: the operands are any two types, and one    *)
(* step evaluates ==, TypeMode::check and the == of the nodes on them.     *)
(***************************************************************************)
InitCompare ==
  /\ lhs \in Types
  /\ rhs \in Types
  /\ cmp = NoCmp
  /\ IdleVisitor
  /\ IdleTokenizer
  /\ Idle

Compare ==
  /\ ~cmp.done
  /\ cmp' = [done |-> TRUE,
             modeEq |-> ModeEq(lhs.mode, rhs.mode),
             modeCheck |-> ModeCheck(lhs.mode, rhs.mode),
             nodeEq |-> NodeEq(lhs.node, rhs.node),
             typeEq |-> TypeEq(lhs, rhs),
             modeEqRev |-> ModeEq(rhs.mode, lhs.mode),
             nodeEqRev |-> NodeEq(rhs.node, lhs.node),
             typeEqRev |-> TypeEq(rhs, lhs)]
  /\ UNCHANGED <<lhs, rhs>>
  /\ UNCHANGED visVars
  /\ UNCHANGED tokVars
  /\ UNCHANGED Others

NextCompare == Compare

SpecCompare == InitCompare /\ [][NextCompare]_vars

\* the comparison in both directions, of nested Set types too
InitSymmetry ==
  /\ lhs \in Types \cup NestedTypes
  /\ rhs \in Types \cup NestedTypes
  /\ cmp = NoCmp
  /\ IdleVisitor
  /\ IdleTokenizer
  /\ Idle

SpecSymmetry == InitSymmetry /\ [][NextCompare]_vars

(***************************************************************************)
(* The programs that are checked: statements over two names.               *)
(***************************************************************************)
Names == {"a", "b"}

\* the declared types of the declarations: the Nil sentinel of `:=` and
\* `::`, a type a numeric literal agrees with, a type it does not agree
\* with, an immutable type, and a type whose mode agrees with no mode
DeclTypes ==
  {TypeNil, TypeInt, TypeBool, NewType(Scalar("Int"), "Immutable"),
   NewType(Scalar("Int"), "Undeclared")}

LeafExprs ==
  {Identifier(n) : n \in Names}
    \cup {Literal(k) : k \in {"Number", "String", "Char", "Bool", "Call"}}

\* the bodies of the blocks: a declaration, a use, a declaration that fails
BlockBodies ==
  LET decl == Variable(TypeNil, Identifier("b"), Literal("Number"))
      use == ExpressionStatement(Identifier("b"))
      bad == Constant(TypeInt, Identifier("a"), Literal("Bool"))
  IN {<<>>, <<decl>>, <<use>>, <<bad>>, <<decl, use>>}

BlockExprs == {Block(b) : b \in BlockBodies}

\* the elements of the Set expressions: a literal, a use of b and a block
\* declaring b
SetElements ==
  {Literal("Number"), Identifier("b"),
   Block(<<Variable(TypeNil, Identifier("b"), Literal("Number"))>>)}

SetExprs == {SetExpr(c) : c \in SeqsUpTo(SetElements, MaxTuple)}

Exprs == LeafExprs \cup BlockExprs \cup SetExprs

\* the targets of the tuple declarations: identifiers and one literal
TargetElements == {Identifier(n) : n \in Names} \cup {Literal("Number")}

TupleTargets == {SetExpr(c) : c \in SeqsUpTo(TargetElements, MaxTuple)}

\* the targets that are neither an identifier nor a Set
OtherTargets == {Literal("Number"), Literal("Call"), Literal("BinaryOp")}

\* the initializers of the single-identifier declarations
InitExprs ==
  LeafExprs \cup BlockExprs \cup {SetExpr(c) : c \in SeqsUpTo(SetElements, 1)}

ExpressionStatements == {ExpressionStatement(e) : e \in Exprs}

VariableStatements ==
  {Variable(t, Identifier(n), e) : t \in DeclTypes, n \in Names, e \in InitExprs}
    \cup {BareVariable(t, Identifier(n)) : t \in DeclTypes, n \in Names}
    \cup {Variable(TypeNil, l, Literal("Call")) : l \in TupleTargets \cup OtherTargets}
    \cup {BareVariable(TypeInt, l) : l \in TupleTargets \cup OtherTargets}

ConstantStatements ==
  {Constant(t, Identifier(n), e) : t \in DeclTypes, n \in Names, e \in InitExprs}
    \cup {Constant(TypeNil, l, Literal("Call")) : l \in TupleTargets \cup OtherTargets}

(***************************************************************************)
(* Visitor::visit: the statements of the program are checked one after the *)
(* other, and the first error ends the pass. Each step checks the next     *)
(* statement of the program, which is any statement.                       *)
(***************************************************************************)
InitVisitor ==
  /\ symtab = NewVisitor.symtab
  /\ typetab = NewVisitor.typetab
  /\ stmt = NoStatement
  /\ result = "none"
  /\ visited = 0
  /\ IdleCompare
  /\ IdleTokenizer
  /\ Idle

Visit(s) ==
  /\ result \notin Errors
  /\ visited < MaxStatements
  /\ LET v == VisitStatement(VisitorOf(symtab, typetab, "ok"), s)
     IN /\ symtab' = v.symtab
        /\ typetab' = v.typetab
        /\ result' = v.err
  /\ stmt' = s
  /\ visited' = visited + 1
  /\ UNCHANGED cmpVars
  /\ UNCHANGED tokVars
  /\ UNCHANGED Others

CheckExpression == \E s \in ExpressionStatements : Visit(s)

CheckVariable == \E s \in VariableStatements : Visit(s)

CheckConstant == \E s \in ConstantStatements : Visit(s)

NextVisitor == CheckExpression \/ CheckVariable \/ CheckConstant

SpecVisitor == InitVisitor /\ [][NextVisitor]_vars

(***************************************************************************)
(* The tokenizer over any source text: the public operations of the cursor *)
(* in any order. A call that panics ends the run.                          *)
(***************************************************************************)
InitTokenizer ==
  /\ items \in SeqsUpTo(Chars, MaxChars)
  /\ index = NewCursor.index
  /\ pos = NewCursor.pos
  /\ snapshots = NewCursor.snapshots
  /\ outcome = Outcome("none", 0)
  /\ call = Call("none", 0, "none")
  /\ IdleCompare
  /\ IdleVisitor
  /\ Idle

CursorNow == Cursor(index, pos, snapshots)

\* the cursor becomes t and the call returns o
Return(t, o) ==
  /\ index' = t.index
  /\ pos' = t.pos
  /\ snapshots' = t.snapshots
  /\ outcome' = o
  /\ UNCHANGED items
  /\ UNCHANGED cmpVars
  /\ UNCHANGED visVars
  /\ UNCHANGED Others

Running == outcome.result # "panic"

DoAdvance ==
  /\ Running
  /\ index < MaxIndex
  /\ call' = Call("advance", 0, "none")
  /\ Return(Advance(items, CursorNow), Outcome("unit", 0))

DoAdvanceN ==
  /\ Running
  /\ \E n \in 0..MaxConsume :
       /\ index + n <= MaxIndex
       /\ call' = Call("advance_n", n, "none")
       /\ Return(AdvanceN(items, CursorNow, n), Outcome("unit", 0))

DoTakeSnapshot ==
  /\ Running
  /\ Len(snapshots) < MaxSnapshots
  /\ call' = Call("take_snapshot", 0, "none")
  /\ Return(TakeSnapshot(CursorNow), Outcome("unit", 0))

DoRollbackSnapshot ==
  /\ Running
  /\ Len(snapshots) > 0
  /\ call' = Call("rollback_snapshot", 0, "none")
  /\ Return(RollbackSnapshot(CursorNow), Outcome("unit", 0))

DoCommitSnapshot ==
  /\ Running
  /\ call' = Call("commit_snapshot", 0, "none")
  /\ Return(CommitSnapshot(CursorNow), Outcome("unit", 0))

DoTryMatchToken ==
  /\ Running
  /\ Len(snapshots) < MaxSnapshots
  /\ \E n \in 0..MaxConsume, r \in MatcherResults :
       /\ index + n <= MaxIndex
       /\ call' = Call("try_match_token", n, r)
       /\ LET returned == TryMatchToken(items, CursorNow, n, r)
          IN Return(returned.t, returned.outcome)

NextTokenizer ==
  \/ DoAdvance
  \/ DoAdvanceN
  \/ DoTakeSnapshot
  \/ DoRollbackSnapshot
  \/ DoCommitSnapshot
  \/ DoTryMatchToken

SpecTokenizer == InitTokenizer /\ [][NextTokenizer]_vars

(***************************************************************************)
(* A chain of type tables, the scope first and its ancestors after it, and *)
(* one call of set_type or of get_type on the scope.                       *)
(***************************************************************************)
\* the types found in the slots before the call, one per slot index
SlotTypes == <<TypeInt, TypeBool, TypeChar, TypeString>>

\* the lists of types of one scope: a mode and up to MaxSlots slots
SlotLists ==
  {[i \in 1..n |-> NewType(SlotTypes[i].node, m)] :
     n \in 0..MaxSlots, m \in {"Regular", "Immutable"}}

Chains == UNION {[1..d -> SlotLists] : d \in 1..(MaxParents + 1)}

\* the types that are written
WrittenTypes == {TypeNil, NewType(Scalar("Float"), "Optional")}

InitTypeTab ==
  /\ typetab \in Chains
  /\ tcall = NoTCall
  /\ symtab = <<>>
  /\ stmt = NoStatement
  /\ result = "none"
  /\ visited = 0
  /\ IdleCompare
  /\ IdleTokenizer
  /\ IdleRun

\* what a call on the type table leaves alone
OutsideTypeTab ==
  /\ UNCHANGED <<symtab, stmt, result, visited>>
  /\ UNCHANGED cmpVars
  /\ UNCHANGED tokVars
  /\ UNCHANGED runVars

DoSetType ==
  /\ tcall.op = "none"
  /\ \E i \in 0..MaxSlots, k \in 0..(MaxParents + 1), t \in WrittenTypes :
       LET r == SetType(typetab, i, k, t)
       IN /\ typetab' = r.tab
          /\ tcall' = TCall("set_type", i, k, t, r.ok, TypeNil)
  /\ OutsideTypeTab

DoGetType ==
  /\ tcall.op = "none"
  /\ \E i \in 0..MaxSlots, k \in 0..(MaxParents + 1) :
       LET r == GetType(typetab, i, k)
       IN /\ typetab' = typetab
          /\ tcall' = TCall("get_type", i, k, TypeNil, r.ok, r.type)
  /\ OutsideTypeTab

NextTypeTab == DoSetType \/ DoGetType

SpecTypeTab == InitTypeTab /\ [][NextTypeTab]_vars

(***************************************************************************)
(* run: the lexer is drained token by token, then the parser, the visitor, *)
(* the compiler and the virtual machine are called, each inside the Ok arm *)
(* of the stage before it.                                                 *)
(***************************************************************************)
InitRun ==
  /\ input \in SeqsUpTo(TokenResults, MaxTokens)
  /\ tokens = <<>>
  /\ pc = "lex"
  /\ status = [NoStatus EXCEPT !["lex"] = "running"]
  /\ started = <<"lex">>
  /\ IdleCompare
  /\ IdleVisitor
  /\ IdleTokenizer
  /\ IdleTypeTab

\* what run leaves alone
OutsideRun ==
  /\ UNCHANGED input
  /\ UNCHANGED cmpVars
  /\ UNCHANGED visVars
  /\ UNCHANGED tokVars
  /\ UNCHANGED tabVars

\* if let Ok(token) = token_result { tokens.push(token) }
LexToken ==
  /\ pc = "lex"
  /\ Len(tokens) < Len(input)
  /\ input[Len(tokens) + 1] # "err"
  /\ tokens' = Append(tokens, input[Len(tokens) + 1])
  /\ UNCHANGED <<pc, status, started>>
  /\ OutsideRun

\* else { return }
LexError ==
  /\ pc = "lex"
  /\ Len(tokens) < Len(input)
  /\ input[Len(tokens) + 1] = "err"
  /\ status' = [status EXCEPT !["lex"] = "err"]
  /\ pc' = Proceed("lex", "err")
  /\ UNCHANGED <<tokens, started>>
  /\ OutsideRun

\* the lexer is exhausted and the for loop ends
LexEnd ==
  /\ pc = "lex"
  /\ Len(tokens) = Len(input)
  /\ status' = [status EXCEPT !["lex"] = "ok"]
  /\ pc' = Proceed("lex", "ok")
  /\ UNCHANGED <<tokens, started>>
  /\ OutsideRun

\* a stage is called and run matches on what it returns
CallStage(stage) ==
  /\ pc = stage
  /\ started' = Append(started, stage)
  /\ \E r \in StageResults :
       /\ status' = [status EXCEPT ![stage] = r]
       /\ pc' = Proceed(stage, r)
  /\ UNCHANGED tokens
  /\ OutsideRun

\* Parser::new(tokens_ref, &source) and match parser.parse()
Parse == CallStage("parse")

\* Visitor::new(&source, &ast) and match visitor.visit()
Check == CallStage("check")

\* Compiler::new(&mut visitor) and match compiler.compile(&ast)
Compile == CallStage("compile")

\* VirtualMachine::new() and vm.execute(..)
Execute == CallStage("execute")

NextRun == LexToken \/ LexError \/ LexEnd \/ Parse \/ Check \/ Compile \/ Execute

SpecRun == InitRun /\ [][NextRun]_vars

(***************************************************************************)
(* C1: when the cursor is not at the end of the input and the matcher      *)
(* consumes any number of characters and reports no match, the index and   *)
(* the position after try_match_token are those before the call.           *)
(***************************************************************************)
C1_RollbackExact ==
  [][outcome'.result = "nomatch" => (index' = index /\ pos' = pos)]_vars

\* a matcher consumed two characters over a newline and reported no match
C1_Witness ==
  /\ outcome = Outcome("nomatch", 2)
  /\ items = <<"a", "\n", "a">>
  /\ index = 0
  /\ pos = <<0, 0>>

(***************************************************************************)
(* What the claims about the tokenizer speak of.                           *)
(***************************************************************************)
\* the stack without its newest snapshot
Front(snaps) == SubSeq(snaps, 1, Len(snaps) - 1)

\* the position after consuming the character c at the position p
PosAfter(c, p) == IF c = "\n" THEN <<p[1] + 1, 0>> ELSE <<p[1], p[2] + 1>>

(***************************************************************************)
(* C11: advance() moves the index by exactly 1 and the position by the     *)
(* character it consumes: a newline adds 1 to the line and sets the column *)
(* to 0, any other character adds 1 to the column and keeps the line;      *)
(* advance_n(k) does what k calls of advance() do.                         *)
(***************************************************************************)
C11_AdvancePosition ==
  [][/\ call'.op = "advance" =>
          /\ index' = index + 1
          /\ HasItem(items, index) => pos' = PosAfter(Item(items, index), pos)
     /\ call'.op = "advance_n" =>
          /\ index' = index + call'.consumed
          /\ pos' = AdvanceN(items, CursorNow, call'.consumed).pos]_vars

(***************************************************************************)
(* C12: at the end of the input try_match_token returns an EOF token for   *)
(* every matcher and changes neither the cursor nor the snapshot stack,    *)
(* for every source text, the empty text and a text ending in a newline    *)
(* included.                                                               *)
(***************************************************************************)
C12_EofAtEnd ==
  [][(call'.op = "try_match_token" /\ End(items, CursorNow)) =>
       /\ outcome'.result = "eof"
       /\ index' = index
       /\ pos' = pos
       /\ snapshots' = snapshots]_vars

(***************************************************************************)
(* C13: when the matcher reports an error, try_match_token returns the     *)
(* error, neither Ok(None) nor a token, and the index and the position     *)
(* stay where the matcher left them.                                       *)
(***************************************************************************)
C13_ErrorNotBacktracked ==
  [][(/\ call'.op = "try_match_token"
      /\ ~End(items, CursorNow)
      /\ call'.report = "error")
     => (/\ outcome'.result = "error"
         /\ index' = index + call'.consumed
         /\ pos' = AdvanceN(items, CursorNow, call'.consumed).pos)]_vars

\* the matcher consumed two characters of "aaa" and reported an error
C13_Witness ==
  /\ call = Call("try_match_token", 2, "error")
  /\ outcome = Outcome("error", 2)
  /\ items = <<"a", "a", "a">>
  /\ index = 2
  /\ pos = <<0, 2>>

(***************************************************************************)
(* C15: the snapshots are a stack. take_snapshot pushes the index and the  *)
(* position, advance leaves the stack alone, rollback_snapshot pops the    *)
(* newest snapshot and restores the index and the position it holds,       *)
(* commit_snapshot pops the newest snapshot and keeps the index and the    *)
(* position; the snapshots below the newest are never touched.             *)
(***************************************************************************)
C15_SnapshotStack ==
  [][/\ call'.op = "take_snapshot" =>
          /\ snapshots' = Append(snapshots, Snapshot(index, pos))
          /\ index' = index /\ pos' = pos
     /\ call'.op \in {"advance", "advance_n"} => snapshots' = snapshots
     /\ (call'.op = "rollback_snapshot" /\ Len(snapshots) > 0) =>
          /\ snapshots' = Front(snapshots)
          /\ index' = snapshots[Len(snapshots)].index
          /\ pos' = snapshots[Len(snapshots)].pos
     /\ (call'.op = "commit_snapshot" /\ Len(snapshots) > 0) =>
          /\ snapshots' = Front(snapshots)
          /\ index' = index /\ pos' = pos]_vars

\* two nested snapshots, taken at index 0 and at index 1: the rollback of
\* the inner one from index 2 returns to index 1 and keeps the outer one
C15_Witness ==
  /\ call.op = "rollback_snapshot"
  /\ items = <<"a", "a", "a">>
  /\ snapshots = <<Snapshot(0, <<0, 0>>)>>
  /\ index = 1
  /\ pos = <<0, 1>>

(***************************************************************************)
(* C19: try_match_token leaves the snapshot stack as deep as it found it,  *)
(* whether the matcher returns a token, no match or an error, and at the   *)
(* end of the input.                                                       *)
(***************************************************************************)
C19_StackBalanced ==
  [][call'.op = "try_match_token" => Len(snapshots') = Len(snapshots)]_vars


(***************************************************************************)
(* C3: over the 16 ordered pairs of modes the relaxed == holds exactly     *)
(* when both modes are among Regular and Immutable or at least one of them *)
(* is Optional, so Undeclared == Undeclared is false; TypeMode::check      *)
(* holds exactly for the 4 pairs of identical modes.                       *)
(***************************************************************************)
C3_ModeLattice ==
  cmp.done =>
    /\ cmp.modeEq <=>
         \/ {lhs.mode, rhs.mode} \subseteq {"Regular", "Immutable"}
         \/ "Optional" \in {lhs.mode, rhs.mode}
    /\ cmp.modeCheck <=> (lhs.mode = rhs.mode)

C3_Witness ==
  /\ cmp.done
  /\ lhs.mode = "Undeclared" /\ rhs.mode = "Undeclared"
  /\ ~cmp.modeEq /\ cmp.modeCheck

(***************************************************************************)
(* C4: Number equals Int, Float and Number in both directions, Int and     *)
(* Float differ, any two distinct scalar nodes other than these differ,    *)
(* and two Set nodes are equal exactly when their element lists have the   *)
(* same length and agree element by element in node and in mode.           *)
(***************************************************************************)
\* the rule of the claim for two nodes that hold no further types
LeafAgree(a, b) ==
  \/ a = b
  \/ a.tag = "Number" /\ b.tag \in {"Int", "Float"}
  \/ b.tag = "Number" /\ a.tag \in {"Int", "Float"}

ModeAgree(a, b) ==
  \/ {a, b} \subseteq {"Regular", "Immutable"}
  \/ "Optional" \in {a, b}

C4_NodeComparison ==
  cmp.done =>
    LET a == lhs.node
        b == rhs.node
    IN /\ (a.tag \in ScalarTag /\ b.tag \in ScalarTag) =>
            (cmp.nodeEq <=> LeafAgree(a, b))
       /\ (a.tag = "Set" /\ b.tag = "Set") =>
            (cmp.nodeEq <=>
               /\ Len(a.elems) = Len(b.elems)
               /\ \A i \in 1..Len(a.elems) :
                    /\ LeafAgree(a.elems[i].node, b.elems[i].node)
                    /\ ModeAgree(a.elems[i].mode, b.elems[i].mode))

C4_Witness ==
  /\ cmp.done
  /\ lhs.node.tag = "Set" /\ rhs.node.tag = "Set"
  /\ Len(lhs.node.elems) = 2 /\ Len(rhs.node.elems) = 2
  /\ lhs.node.elems # rhs.node.elems
  /\ lhs.node.elems[1].node.tag = "Number"
  /\ rhs.node.elems[1].node.tag = "Int"
  /\ cmp.nodeEq

C4_WitnessIntFloat ==
  /\ cmp.done
  /\ lhs.node = Scalar("Int") /\ rhs.node = Scalar("Float")
  /\ ~cmp.nodeEq

(***************************************************************************)
(* What the claims about the checker speak of.                             *)
(***************************************************************************)
Declared(names, n) == \E i \in 1..Len(names) : names[i] = n

IsDeclaration(s) == s.kind \in {"Variable", "Constant"}

\* a Variable or Constant statement whose target is one identifier
IsSingle(s) == IsDeclaration(s) /\ s.left.kind = "Identifier"

\* a Variable or Constant statement whose target is a Set
IsTuple(s) == IsDeclaration(s) /\ s.left.kind = "Set"

\* the names of a list of identifiers, in order
NamesOf(es) == [i \in 1..Len(es) |-> es[i].name]

AllIdentifiers(es) == \A i \in 1..Len(es) : es[i].kind = "Identifier"

\* the type recorded in the slot a name resolves to
SlotType(names, tab, n) == GetType(tab, GetName(names, n).index, 0)

\* the type the checker infers for the initializer of the single-identifier
\* declaration s met with the tables names and tab: the name has its slot
\* and the placeholder is pushed, then the initializer is checked and typed
Inferred(names, tab, s) ==
  LET r == Resolve(VisitorOf(names, tab, "ok"), s.left.name)
      v1 == [r.v EXCEPT !.typetab = Grow(r.v.typetab)]
      v2 == VisitExpression(v1, s.right)
  IN IF v2.err # "ok" THEN [ok |-> FALSE, type |-> TypeNil]
     ELSE TypeExpression(v2, s.right)

(***************************************************************************)
(* C2: after any sequence of declarations the symbol table and the type    *)
(* table of the scope hold the same number of slots.                       *)
(***************************************************************************)
C2_TablesPaired == Len(symtab) = Size(typetab)

(***************************************************************************)
(* C5: a single-identifier declaration with a declared type T other than   *)
(* Nil and an initializer whose inferred type agrees with T checks         *)
(* successfully and records exactly T in the slot of the name.             *)
(***************************************************************************)
C5_DeclaredTypeRecorded ==
  [][(/\ IsSingle(stmt')
      /\ stmt'.hasRight
      /\ stmt'.vtype.node.tag # "Nil"
      /\ Inferred(symtab, typetab, stmt').ok
      /\ TypeEq(stmt'.vtype, Inferred(symtab, typetab, stmt').type))
     => (/\ result' = "ok"
         /\ SlotType(symtab', typetab', stmt'.left.name).ok
         /\ SlotType(symtab', typetab', stmt'.left.name).type = stmt'.vtype)]_vars

(***************************************************************************)
(* C6: a single-identifier declaration with a declared type T other than   *)
(* Nil and an initializer whose inferred type does not agree with T fails  *)
(* with the mismatched-types error, and T is written to no slot.           *)
(***************************************************************************)
C6_MismatchFails ==
  [][(/\ IsSingle(stmt')
      /\ stmt'.hasRight
      /\ stmt'.vtype.node.tag # "Nil"
      /\ Inferred(symtab, typetab, stmt').ok
      /\ ~TypeEq(stmt'.vtype, Inferred(symtab, typetab, stmt').type))
     => (/\ result' = "mismatched"
         /\ \A i \in 1..Size(typetab') :
              typetab'[1][i] = stmt'.vtype =>
                i <= Size(typetab) /\ typetab[1][i] = stmt'.vtype)]_vars

\* `a: bool = 123` as the first statement
C6_Witness ==
  /\ visited = 1
  /\ stmt = Variable(TypeBool, Identifier("a"), Literal("Number"))
  /\ result = "mismatched"
  /\ typetab = <<<<TypeNil>>>>

(***************************************************************************)
(* C7: an Identifier expression fails with the undeclared-name error       *)
(* exactly when its name does not resolve, and changes neither table       *)
(* whether it fails or not; a Set expression fails exactly when one of its *)
(* elements fails where it is checked, after the elements before it.       *)
(***************************************************************************)
\* the tables in which element i of a Set expression is checked
Before(names, tab, es, i) ==
  VisitExpressions(VisitorOf(names, tab, "ok"), SubSeq(es, 1, i - 1))

\* element i of the Set expression is reached and fails
ElementFails(names, tab, es, i) ==
  LET v == Before(names, tab, es, i)
  IN /\ v.err = "ok"
     /\ \/ es[i].kind = "Identifier" /\ ~Declared(v.symtab, es[i].name)
        \/ es[i].kind = "Block" /\ VisitStatements(v, es[i].body).err # "ok"

C7_ExpressionErrors ==
  [][/\ (stmt'.kind = "Expression" /\ stmt'.left.kind = "Identifier") =>
          /\ (result' = "undeclared") <=> ~Declared(symtab, stmt'.left.name)
          /\ (result' = "ok") <=> Declared(symtab, stmt'.left.name)
          /\ symtab' = symtab
          /\ typetab' = typetab
     /\ (stmt'.kind = "Expression" /\ stmt'.left.kind = "Set") =>
          ((result' # "ok") <=>
             \E i \in 1..Len(stmt'.left.content) :
               ElementFails(symtab, typetab, stmt'.left.content, i))]_vars

\* a Set expression whose second element is the one that fails
C7_Witness ==
  /\ stmt = ExpressionStatement(SetExpr(<<Literal("Number"), Identifier("b")>>))
  /\ result = "undeclared"
  /\ ~Declared(symtab, "b")

C7_WitnessResolved ==
  /\ visited = 2
  /\ stmt = ExpressionStatement(Identifier("a"))
  /\ result = "ok"
  /\ Declared(symtab, "a")

(***************************************************************************)
(* C8: an identifier used as the initializer of a declaration is accepted  *)
(* only if a strictly earlier statement declared the name, so `z := z`     *)
(* with no earlier declaration of z fails with the undeclared-name error.  *)
(***************************************************************************)
C8_DeclarationBeforeUse ==
  [][(/\ IsSingle(stmt')
      /\ stmt'.hasRight
      /\ stmt'.right.kind = "Identifier"
      /\ ~Declared(symtab, stmt'.right.name))
     => result' = "undeclared"]_vars

(***************************************************************************)
(* C9: a declaration whose target is a Set of n identifiers checks without *)
(* error and adds the n names, in order, as new symbols of the scope; a    *)
(* target Set with an element that is no identifier fails with the         *)
(* can't-declare-non-identifier error.                                     *)
(***************************************************************************)
C9_TupleTarget ==
  [][IsTuple(stmt') =>
       IF AllIdentifiers(stmt'.left.content)
       THEN /\ result' = "ok"
            /\ symtab' = symtab \o NamesOf(stmt'.left.content)
       ELSE result' = "nonident"]_vars

\* two tuple declarations of the same two names: four new symbols
C9_Witness ==
  /\ visited = 2
  /\ IsTuple(stmt)
  /\ stmt.left.content = <<Identifier("a"), Identifier("b")>>
  /\ result = "ok"
  /\ symtab = <<"a", "b", "a", "b">>

C9_WitnessNonIdentifier ==
  /\ IsTuple(stmt)
  /\ stmt.left.content = <<Identifier("a"), Literal("Number")>>
  /\ result = "nonident"

(***************************************************************************)
(* C10: a Variable or Constant statement whose target is neither an        *)
(* identifier nor a Set fails with the unexpected-declaration error when   *)
(* it is checked through visit_statement.                                  *)
(***************************************************************************)
C10_UnexpectedTarget ==
  (IsDeclaration(stmt) /\ stmt.left.kind \notin {"Identifier", "Set"}) =>
    result = (IF stmt.kind = "Variable"
              THEN "unexpected variable declaration"
              ELSE "unexpected constant declaration")

(***************************************************************************)
(* What the claims about inference and redeclaration speak of.             *)
(***************************************************************************)
\* the visitor after the initializer of the single-identifier declaration
\* s was checked from the tables names and tab
Checked(names, tab, s) ==
  LET r == Resolve(VisitorOf(names, tab, "ok"), s.left.name)
      v1 == [r.v EXCEPT !.typetab = Grow(r.v.typetab)]
  IN IF s.hasRight THEN VisitExpression(v1, s.right) ELSE v1

\* the type a literal-driven inference gives the expression e in visitor v
LiteralDriven(v, e) ==
  CASE e.kind = "String" -> [ok |-> TRUE, type |-> NewType(Scalar("Str"), "Regular")]
    [] e.kind = "Char" -> [ok |-> TRUE, type |-> NewType(Scalar("Char"), "Regular")]
    [] e.kind = "Bool" -> [ok |-> TRUE, type |-> NewType(Scalar("Bool"), "Regular")]
    [] e.kind = "Number" -> [ok |-> TRUE, type |-> NewType(Scalar("Number"), "Regular")]
    [] e.kind = "Identifier" -> SlotType(v.symtab, v.typetab, e.name)
    [] OTHER -> [ok |-> TRUE, type |-> NewType(Scalar("Nil"), "Regular")]

\* the number of slots of the symbol table that hold the name n
Occurrences(names, n) == Cardinality({i \in 1..Len(names) : names[i] = n})

\* the type a single-identifier declaration that is accepted records
TypeOfDeclaration(names, tab, s) ==
  IF s.hasRight /\ s.vtype.node.tag = "Nil"
  THEN LiteralDriven(Checked(names, tab, s), s.right).type
  ELSE s.vtype

(***************************************************************************)
(* C17: inference is literal-driven (string, char, bool and numeric        *)
(* literals infer Str, Char, Bool and Number, an identifier the type of    *)
(* its slot, every other shape Nil, all Regular); a single-identifier      *)
(* declaration without a declared type stores the inferred type verbatim,  *)
(* and a declaration without initializer stores the declared type as-is.   *)
(***************************************************************************)
C17_InferredStored ==
  [][/\ (/\ IsSingle(stmt')
         /\ stmt'.hasRight
         /\ stmt'.vtype.node.tag = "Nil"
         /\ Checked(symtab, typetab, stmt').err = "ok")
        => (/\ result' = "ok"
            /\ LiteralDriven(Checked(symtab, typetab, stmt'), stmt'.right).ok
            /\ SlotType(symtab', typetab', stmt'.left.name).ok
            /\ SlotType(symtab', typetab', stmt'.left.name).type
                 = LiteralDriven(Checked(symtab, typetab, stmt'), stmt'.right).type)
     /\ (IsSingle(stmt') /\ ~stmt'.hasRight)
        => (/\ result' = "ok"
            /\ SlotType(symtab', typetab', stmt'.left.name).ok
            /\ SlotType(symtab', typetab', stmt'.left.name).type = stmt'.vtype)]_vars

(***************************************************************************)
(* C18: a single-identifier declaration of a name that already resolves,   *)
(* whose initializer checks and agrees with the declared type, is accepted *)
(* whatever the mode recorded for the name; the name keeps its slot index, *)
(* no slot is added for it, and the type of the new declaration replaces   *)
(* the type recorded at that index.                                        *)
(***************************************************************************)
C18_RedeclarationReusesSlot ==
  [][(/\ IsSingle(stmt')
      /\ Declared(symtab, stmt'.left.name)
      /\ Checked(symtab, typetab, stmt').err = "ok"
      /\ stmt'.hasRight =>
           /\ Inferred(symtab, typetab, stmt').ok
           /\ \/ stmt'.vtype.node.tag = "Nil"
              \/ TypeEq(stmt'.vtype, Inferred(symtab, typetab, stmt').type))
     => (/\ result' = "ok"
         /\ GetName(symtab', stmt'.left.name).index
              = GetName(symtab, stmt'.left.name).index
         /\ Occurrences(symtab', stmt'.left.name)
              = Occurrences(symtab, stmt'.left.name)
         /\ SlotType(symtab', typetab', stmt'.left.name).ok
         /\ SlotType(symtab', typetab', stmt'.left.name).type
              = TypeOfDeclaration(symtab, typetab, stmt'))]_vars

(***************************************************************************)
(* C20: the relaxed comparison is symmetric: for all modes m1 == m2 is     *)
(* m2 == m1, for all nodes, Set nodes nested in Set nodes included,        *)
(* n1 == n2 is n2 == n1, and so for all types t1 == t2 is t2 == t1.        *)
(***************************************************************************)
C20_Symmetric ==
  cmp.done =>
    /\ cmp.modeEq = cmp.modeEqRev
    /\ cmp.nodeEq = cmp.nodeEqRev
    /\ cmp.typeEq = cmp.typeEqRev

\* ((number)) against ((int)), equal in both directions
C20_Witness ==
  /\ cmp.done
  /\ lhs = NewType(SetNode(<<NewType(SetNode(<<NewType(Scalar("Number"), "Regular")>>),
                                     "Regular")>>), "Regular")
  /\ rhs = NewType(SetNode(<<NewType(SetNode(<<NewType(Scalar("Int"), "Regular")>>),
                                     "Regular")>>), "Regular")
  /\ cmp.typeEq /\ cmp.typeEqRev

\* two nested types that differ in both directions: an undeclared element
C20_WitnessDiffer ==
  /\ cmp.done
  /\ lhs.node = SetNode(<<NewType(SetNode(<<NewType(Scalar("Int"), "Undeclared")>>),
                                  "Regular")>>)
  /\ rhs.node = SetNode(<<NewType(SetNode(<<NewType(Scalar("Int"), "Regular")>>),
                                  "Regular")>>)
  /\ ~cmp.nodeEq /\ ~cmp.nodeEqRev

(***************************************************************************)
(* C14: in run the stages start in the order lex, parse, check, compile,   *)
(* execute, and a stage starts only when every stage before it succeeded:  *)
(* after a lexical error the parser is never called, after a parse error   *)
(* the visitor is never called, after a checking error the compiler is     *)
(* never called, and the virtual machine runs only after lexing, parsing,  *)
(* checking and compiling all succeeded. The parser starts with every      *)
(* token the lexer yielded.                                                *)
(***************************************************************************)
C14_FailFast ==
  /\ started = SubSeq(Stages, 1, Len(started))
  /\ \A i \in 1..Len(Stages) :
       status[Stages[i]] # "idle" <=> i <= Len(started)
  /\ \A i \in 2..Len(started) :
       \A j \in 1..(i - 1) : status[Stages[j]] = "ok"
  /\ (\E i \in 1..Len(input) : input[i] = "err") => status["parse"] = "idle"
  /\ status["parse"] # "idle" => tokens = input

\* three tokens are lexed and every stage succeeds: the machine has run
C14_Witness ==
  /\ Len(tokens) = 3
  /\ started = Stages
  /\ \A i \in 1..Len(Stages) : status[Stages[i]] = "ok"
  /\ pc = "done"

\* the checker fails: the compiler and the machine are never called
C14_WitnessCheckFails ==
  /\ pc = "done"
  /\ status["check"] = "err"
  /\ status["compile"] = "idle" /\ status["execute"] = "idle"
  /\ started = <<"lex", "parse", "check">>

(***************************************************************************)
(* C16: set_type(i, k, t) on a scope writes t into slot i of the ancestor  *)
(* k parent links away (k = 0 is the scope itself) and changes no other    *)
(* slot of any scope, and get_type(i, k) then returns t; when k is more    *)
(* than the number of ancestors or i is not a slot of the scope addressed, *)
(* set_type and get_type both return an error and no table changes.        *)
(***************************************************************************)
\* slot i of the scope k parent links away exists in the chain tab
Addressed(tab, i, k) == k < Len(tab) /\ i < Len(tab[k + 1])

C16_SetThenGet ==
  [][/\ tcall'.op = "set_type" =>
          IF Addressed(typetab, tcall'.index, tcall'.env_index)
          THEN /\ tcall'.ok
               /\ typetab' = [typetab EXCEPT
                                ![tcall'.env_index + 1][tcall'.index + 1] = tcall'.type]
               /\ GetType(typetab', tcall'.index, tcall'.env_index)
                    = [ok |-> TRUE, type |-> tcall'.type]
          ELSE ~tcall'.ok /\ typetab' = typetab
     /\ tcall'.op = "get_type" =>
          /\ typetab' = typetab
          /\ IF Addressed(typetab, tcall'.index, tcall'.env_index)
             THEN /\ tcall'.ok
                  /\ tcall'.got = typetab[tcall'.env_index + 1][tcall'.index + 1]
             ELSE ~tcall'.ok]_vars

\* a write into the second slot of the grandparent scope
C16_Witness ==
  /\ tcall.op = "set_type"
  /\ tcall.ok
  /\ tcall.env_index = 2
  /\ tcall.index = 1
  /\ Len(typetab) = 3
  /\ typetab[3][2] = tcall.type
  /\ typetab[3][1] = TypeInt
  /\ Len(typetab[1]) = 2 /\ typetab[1][2] = TypeBool

\* a write one link past the last ancestor is refused
C16_WitnessNoAncestor ==
  /\ tcall.op = "set_type"
  /\ ~tcall.ok
  /\ tcall.env_index = Len(typetab)

(***************************************************************************)
(* C21: a declaration that fails is not undone. When a single-identifier   *)
(* declaration of a name that did not resolve fails with mismatched types  *)
(* or with an undeclared identifier in its initializer, the name is        *)
(* already in the symbol table, at the index that was free, and the        *)
(* Nil/Regular placeholder is already appended to the type table, so the   *)
(* name resolves afterwards; nothing else changes unless the initializer   *)
(* holds statements of its own. When a tuple-target declaration fails on   *)
(* an element that is no identifier, every identifier before that element  *)
(* stays registered.                                                       *)
(***************************************************************************)
\* the first element of a tuple target that is no identifier
FirstOther(es) ==
  CHOOSE i \in 1..Len(es) :
    /\ es[i].kind # "Identifier"
    /\ \A j \in 1..(i - 1) : es[j].kind = "Identifier"

C21_FailureNotUndone ==
  [][/\ (/\ IsSingle(stmt')
         /\ ~Declared(symtab, stmt'.left.name)
         /\ result' \in {"mismatched", "undeclared"})
        => (/\ Declared(symtab', stmt'.left.name)
            /\ GetName(symtab', stmt'.left.name).found
            /\ GetName(symtab', stmt'.left.name).index = Len(symtab)
            /\ Size(typetab') >= Size(typetab) + 1
            /\ stmt'.right.kind \notin {"Block", "Set"} =>
                 /\ symtab' = Append(symtab, stmt'.left.name)
                 /\ typetab' = [typetab EXCEPT
                                  ![1] = Append(@, NewType(Scalar("Nil"), "Regular"))])
     /\ (IsTuple(stmt') /\ result' = "nonident")
        => (/\ symtab' = symtab \o NamesOf(SubSeq(stmt'.left.content, 1,
                                                  FirstOther(stmt'.left.content) - 1))
            /\ typetab' = typetab)]_vars

\* `a: bool = 123` as the first statement: the check fails and a resolves
C21_Witness ==
  /\ visited = 1
  /\ stmt = Variable(TypeBool, Identifier("a"), Literal("Number"))
  /\ result = "mismatched"
  /\ symtab = <<"a">>
  /\ typetab = <<<<TypeNil>>>>

\* `b := a` with a undeclared: b stays registered with its placeholder
C21_WitnessUndeclared ==
  /\ visited = 1
  /\ stmt = Variable(TypeNil, Identifier("b"), Identifier("a"))
  /\ result = "undeclared"
  /\ symtab = <<"b">>
  /\ typetab = <<<<TypeNil>>>>

\* `(a, 1) := f()`: a stays registered
C21_WitnessTuple ==
  /\ visited = 1
  /\ IsTuple(stmt)
  /\ stmt.left.content = <<Identifier("a"), Literal("Number")>>
  /\ result = "nonident"
  /\ symtab = <<"a">>

====
